---- MODULE Spec2Model ----
(***************************************************************************)
(* Economic-calendar ingestor (src/ingestor_main.py) and read API          *)
(* (src/api_main.py): the Euro-area observation decoder, the ingestion     *)
(* run over the FRED and ECB catalogs, the blob store both services share, *)
(* and the query handler with its in-process TTL cache.                    *)
(*                                                                         *)
(* Conventions.  A Python list is a sequence.  A dict that the code only   *)
(* iterates is a sequence of its items in insertion order; a dict that the *)
(* code looks up is a function.  An optional value (None, a missing key)   *)
(* is a sequence of length at most one.  A floating point value is the     *)
(* integer number of tenths.  A raised exception is the field raised of    *)
(* the operator's result.                                                  *)
(***************************************************************************)
EXTENDS Integers, Sequences, FiniteSets, TLC

VARIABLES
    raw,            \* decoder: the parsed JSON body of the ECB response
    ecb_ret,        \* decoder: the list fetch_ecb_data returned
    ecb_log,        \* decoder: which diagnostic fetch_ecb_data printed
    dpc,            \* decoder: "ready" before the call, "done" after it
    store,          \* the bucket: path -> <<>> (no blob) or <<points>>
    data_cache,     \* api_main.data_cache: cache key -> {data, expiry}
    now,            \* wall clock, seconds
    last,           \* the last request served: its inputs and its response
    env             \* the environment variables each process was started with

vars == <<raw, ecb_ret, ecb_log, dpc, store, data_cache, now, last, env>>

(***************************************************************************)
(* Bounds of the model.                                                    *)
(***************************************************************************)
MaxSeries == 2      \* series entries in the first dataset
MaxObs == 3         \* observations in the first dataset, all series together
MaxTicks == 2       \* clock advances in one behaviour

(***************************************************************************)
(* Python primitives.                                                      *)
(***************************************************************************)

\* The code points of the date labels the model uses ('-' 45, '0' 48, 'M' 77).
CodePoints(s) ==
    CASE s = "2023-M10" -> <<50, 48, 50, 51, 45, 77, 49, 48>>
      [] s = "2023-M11" -> <<50, 48, 50, 51, 45, 77, 49, 49>>
      [] s = "2023-M12" -> <<50, 48, 50, 51, 45, 77, 49, 50>>
      [] s = "2023-M2" -> <<50, 48, 50, 51, 45, 77, 50>>
      [] s = "2023-10-01" -> <<50, 48, 50, 51, 45, 49, 48, 45, 48, 49>>
      [] s = "2024-01-01" -> <<50, 48, 50, 52, 45, 48, 49, 45, 48, 49>>
      [] s = "2024-02-01" -> <<50, 48, 50, 52, 45, 48, 50, 45, 48, 49>>

RECURSIVE SeqLess(_, _)
SeqLess(a, b) ==
    IF b = <<>> THEN FALSE
    ELSE IF a = <<>> THEN TRUE
    ELSE IF Head(a) # Head(b) THEN Head(a) < Head(b)
    ELSE SeqLess(Tail(a), Tail(b))

\* str < str in Python: lexicographic on code points, a proper prefix first.
StrLess(s, t) == SeqLess(CodePoints(s), CodePoints(t))

\* str(i) for the indices the model uses.
PyStr(i) ==
    CASE i = 0 -> "0"
      [] i = 1 -> "1"
      [] i = 2 -> "2"
      [] i = 3 -> "3"
      [] i = 4 -> "4"

\* int(s): the integer of a decimal literal, ValueError otherwise.
PyInt(s) ==
    CASE s = "0" -> [raised |-> FALSE, val |-> 0]
      [] s = "1" -> [raised |-> FALSE, val |-> 1]
      [] s = "2" -> [raised |-> FALSE, val |-> 2]
      [] s = "3" -> [raised |-> FALSE, val |-> 3]
      [] s = "-1" -> [raised |-> FALSE, val |-> -1]
      [] OTHER -> [raised |-> TRUE, val |-> 0]

\* float(v) of a JSON scalar: a number or a numeric string converts; any
\* other string raises ValueError and null raises TypeError.
PyFloat(v) ==
    CASE v = "3.1" -> [raised |-> FALSE, val |-> 31]
      [] v = "3.4" -> [raised |-> FALSE, val |-> 34]
      [] v = "3.9" -> [raised |-> FALSE, val |-> 39]
      [] v = "4.1" -> [raised |-> FALSE, val |-> 41]
      [] OTHER -> [raised |-> TRUE, val |-> 0]

\* list[i] in Python: a negative index counts from the end; outside
\* -len .. len-1 it raises IndexError.
PyIndex(list, i) ==
    IF i >= 0 /\ i < Len(list) THEN [raised |-> FALSE, val |-> <<list[i + 1]>>]
    ELSE IF i < 0 /\ i >= -Len(list)
        THEN [raised |-> FALSE, val |-> <<list[Len(list) + i + 1]>>]
    ELSE [raised |-> TRUE, val |-> <<>>]

\* list.sort(key=date): stable, ascending in string order.
RECURSIVE InsertAsc(_, _)
InsertAsc(sorted, p) ==
    IF sorted = <<>> THEN <<p>>
    ELSE IF StrLess(p.date, Head(sorted).date) THEN <<p>> \o sorted
    ELSE <<Head(sorted)>> \o InsertAsc(Tail(sorted), p)

RECURSIVE SortAsc(_)
SortAsc(list) ==
    IF list = <<>> THEN <<>>
    ELSE InsertAsc(SortAsc(SubSeq(list, 1, Len(list) - 1)), list[Len(list)])

(***************************************************************************)
(* fetch_ecb_data: the parsing block.                                      *)
(*                                                                         *)
(* data is [dataSets, timeValues]: dataSets a list of                      *)
(* [series, hasTable, table], series a list (the dict's items in order) of *)
(* observation lists, an observation [key, refs] with key the text before  *)
(* the first colon of the dimension index string and refs the value index  *)
(* list; table the dataset's 'observations' dict; timeValues the names of  *)
(* structure.dimensions.observation[0].values.                             *)
(***************************************************************************)

\* One pass of the inner loop body for one observation: a point appended,
\* the observation skipped (continue), or an exception raised.
DecodeObservation(data, obs, flow_ref, key_values) ==
    LET ds == data.dataSets[1]
        skip == [raised |-> FALSE, point |-> <<>>]
        fail == [raised |-> TRUE, point |-> <<>>]
    IN  IF obs.refs = <<>> THEN fail                      \* [0] of an empty list
        ELSE IF ~ds.hasTable THEN fail                    \* KeyError 'observations'
        ELSE LET k == PyStr(obs.refs[1])
                 value_obj == IF k \in DOMAIN ds.table THEN ds.table[k] ELSE <<>>
             IN  IF value_obj = <<>> THEN skip            \* if not value_obj: continue
                 ELSE LET value == value_obj[1]
                          idx == PyInt(obs.key)
                      IN  IF idx.raised THEN fail
                          ELSE IF idx.val >= Len(data.timeValues) THEN skip
                          ELSE LET name == PyIndex(data.timeValues, idx.val)
                                   f == PyFloat(value)
                               IN  IF name.raised \/ f.raised THEN fail
                                   ELSE [raised |-> FALSE,
                                         point |-> <<[date |-> name.val[1],
                                                      value |-> f.val,
                                                      flow_ref |-> flow_ref,
                                                      key_values |-> key_values,
                                                      source |-> "ECB"]>>]

\* The inner loop over one series' observations, from the accumulator acc.
RECURSIVE DecodeSeries(_, _, _, _, _)
DecodeSeries(data, observations, acc, flow_ref, key_values) ==
    IF acc.raised \/ observations = <<>> THEN acc
    ELSE LET r == DecodeObservation(data, Head(observations), flow_ref, key_values)
         IN  DecodeSeries(data, Tail(observations),
                          [raised |-> r.raised, points |-> acc.points \o r.point],
                          flow_ref, key_values)

\* The outer loop over series_data.items().
RECURSIVE DecodeAll(_, _, _, _, _)
DecodeAll(data, series, acc, flow_ref, key_values) ==
    IF acc.raised \/ series = <<>> THEN acc
    ELSE DecodeAll(data, Tail(series),
                   DecodeSeries(data, Head(series), acc, flow_ref, key_values),
                   flow_ref, key_values)

\* The parsing block with the final sort left out.
SortOmitted(points) == points

\* The sort that ends the parsing block.
SortParsed(points) == SortAsc(points)

\* The parsing block without its check for an empty series map.
ParseEcbNoSeriesCheck(data, flow_ref, key_values) ==
    IF data.dataSets = <<>>
        THEN [ret |-> <<>>, log |-> "NoDataSets"]
    ELSE LET acc == DecodeAll(data, data.dataSets[1].series,
                              [raised |-> FALSE, points |-> <<>>],
                              flow_ref, key_values)
         IN  IF acc.raised THEN [ret |-> <<>>, log |-> "CriticalParsingError"]
             ELSE [ret |-> SortParsed(acc.points), log |-> "Parsed"]

\* The parsing block: the returned list and the diagnostic printed.
ParseEcb(data, flow_ref, key_values) ==
    IF data.dataSets = <<>>
        THEN [ret |-> <<>>, log |-> "NoDataSets"]
    ELSE IF data.dataSets[1].series = <<>>
        THEN [ret |-> <<>>, log |-> "NoSeries"]
    ELSE LET acc == DecodeAll(data, data.dataSets[1].series,
                              [raised |-> FALSE, points |-> <<>>],
                              flow_ref, key_values)
         IN  IF acc.raised THEN [ret |-> <<>>, log |-> "CriticalParsingError"]
             ELSE [ret |-> SortParsed(acc.points), log |-> "Parsed"]

\* fetch_ecb_data on a response: resp.ok is raise_for_status passing.
fetch_ecb_data(resp, flow_ref, key_values) ==
    IF ~resp.ok THEN [ret |-> <<>>, log |-> "RequestError"]
    ELSE ParseEcb(resp.data, flow_ref, key_values)

(***************************************************************************)
(* ingestor_main.py: the catalogs, the FRED fetch adapter, the upload and  *)
(* the ingestion run.                                                      *)
(***************************************************************************)
FRED_SERIES ==
    <<[name |-> "US_UNEMPLOYMENT_RATE", series_id |-> "UNRATE"],
      [name |-> "US_CPI", series_id |-> "CPIAUCSL"]>>

ECB_SERIES ==
    <<[name |-> "EU_HICP", flow_ref |-> "ICP",
       key_values |-> "M.U2.N.000000.4.ANR"],
      [name |-> "EU_EUR_USD_FX_RATE", flow_ref |-> "EXR",
       key_values |-> "D.USD.EUR.SP00.A"]>>

\* str.lower() on the catalog keys; a key of FRED_SERIES_MAP is lower case
\* already and is its own image.
PyLower(s) ==
    CASE s = "US_UNEMPLOYMENT_RATE" -> "us_unemployment_rate"
      [] s = "US_CPI" -> "us_cpi"
      [] s = "EU_HICP" -> "eu_hicp"
      [] s = "EU_EUR_USD_FX_RATE" -> "eu_eur_usd_fx_rate"
      [] OTHER -> s

\* The blob name the ingestion run writes a FRED key under.
IngestFredPath(name) == "economic_data/fred/" \o PyLower(name) \o ".json"

\* The blob name the ingestion run writes an ECB key under.
IngestEcbPath(name) == "economic_data/ecb/" \o PyLower(name) \o ".json"

\* The loop of fetch_fred_data over the observations of the response.  A
\* record without 'value' raises KeyError and a value that is neither '.'
\* nor a number raises ValueError; neither is caught in fetch_fred_data.
RECURSIVE FredObservations(_, _, _)
FredObservations(data, acc, series_id) ==
    IF acc.raised \/ data = <<>> THEN acc
    ELSE LET obs == Head(data)
         IN  IF obs.value = <<>>
                 THEN [raised |-> TRUE, ret |-> <<>>]
             ELSE IF obs.value[1] = "."
                 THEN FredObservations(Tail(data), acc, series_id)
             ELSE LET f == PyFloat(obs.value[1])
                  IN  IF f.raised THEN [raised |-> TRUE, ret |-> <<>>]
                      ELSE FredObservations(
                               Tail(data),
                               [raised |-> FALSE,
                                ret |-> acc.ret \o <<[date |-> obs.date,
                                                      value |-> f.val,
                                                      series_id |-> series_id,
                                                      source |-> "FRED"]>>],
                               series_id)

\* fetch_fred_data: resp.ok is false when requests.get, raise_for_status or
\* response.json() raised (all RequestException, caught).
fetch_fred_data(api_key, resp, series_id) ==
    IF ~api_key THEN [raised |-> FALSE, ret |-> <<>>]
    ELSE IF ~resp.ok THEN [raised |-> FALSE, ret |-> <<>>]
    ELSE FredObservations(resp.observations, [raised |-> FALSE, ret |-> <<>>],
                          series_id)

\* upload_to_gcs: False without a bucket name or when the upload raises;
\* otherwise the blob at filename is replaced by the JSON text of data, which
\* json.loads reads back as data.
upload_to_gcs(st, bucket_name, write_ok, data, filename) ==
    IF ~bucket_name THEN [ok |-> FALSE, store |-> st]
    ELSE IF ~write_ok THEN [ok |-> FALSE, store |-> st]
    ELSE [ok |-> TRUE, store |-> [st EXCEPT ![filename] = <<data>>]]

\* The loop body with the upload issued before the fetched list is tested.
StoreFetchedUploadsFirst(run, name, src, data, filename, bucket_name, write_ok) ==
    LET up == upload_to_gcs(run.store, bucket_name, write_ok, data, filename)
        put == [run EXCEPT
                   !.store = up.store,
                   !.puts = @ \o <<[name |-> name, path |-> filename,
                                    data |-> data]>>]
    IN  IF data # <<>>
        THEN [put EXCEPT
                 !.results = @ @@ (name :>
                     IF up.ok
                     THEN [status |-> "success", count |-> Len(data),
                           gcs_path |-> filename]
                     ELSE [status |-> "failed_upload",
                           message |-> "GCS upload failed."])]
        ELSE [put EXCEPT
                 !.results = @ @@ (name :>
                     [status |-> "failed_fetch",
                      message |-> "No data fetched from " \o src \o " for " \o name
                                  \o " or API error."])]

\* The body of both loops of ingest_economic_data after the fetch: upload
\* when the fetch returned points and record the key's status.  puts lists
\* the calls of upload_to_gcs.
StoreFetched(run, name, src, data, filename, bucket_name, write_ok) ==
    IF data # <<>>
    THEN LET up == upload_to_gcs(run.store, bucket_name, write_ok, data, filename)
         IN  [run EXCEPT
                 !.store = up.store,
                 !.puts = @ \o <<[name |-> name, path |-> filename, data |-> data]>>,
                 !.results = @ @@ (name :>
                     IF up.ok
                     THEN [status |-> "success", count |-> Len(data),
                           gcs_path |-> filename]
                     ELSE [status |-> "failed_upload",
                           message |-> "GCS upload failed."])]
    ELSE [run EXCEPT
             !.results = @ @@ (name :>
                 [status |-> "failed_fetch",
                  message |-> "No data fetched from " \o src \o " for " \o name
                              \o " or API error."])]

\* The FRED loop from its i-th entry; an exception out of fetch_fred_data
\* leaves the loop and the handler.
RECURSIVE IngestFred(_, _, _, _)
IngestFred(run, i, inputs, e) ==
    IF run.raised \/ i > Len(FRED_SERIES) THEN run
    ELSE LET entry == FRED_SERIES[i]
             f == fetch_fred_data(e.FRED_API_KEY, inputs[entry.name].resp,
                                  entry.series_id)
             fetched == [run EXCEPT !.fetches = @ \o <<entry.name>>]
         IN  IF f.raised THEN [fetched EXCEPT !.raised = TRUE]
             ELSE IngestFred(
                      StoreFetched(fetched, entry.name, "FRED", f.ret,
                                   IngestFredPath(entry.name),
                                   e.INGESTOR_BUCKET, inputs[entry.name].write_ok),
                      i + 1, inputs, e)

\* The ECB loop from its i-th entry.
RECURSIVE IngestEcb(_, _, _, _)
IngestEcb(run, i, inputs, e) ==
    IF run.raised \/ i > Len(ECB_SERIES) THEN run
    ELSE LET entry == ECB_SERIES[i]
             f == fetch_ecb_data(inputs[entry.name].resp, entry.flow_ref,
                                 entry.key_values)
             fetched == [run EXCEPT !.fetches = @ \o <<entry.name>>]
         IN  IngestEcb(
                 StoreFetched(fetched, entry.name, "ECB", f.ret,
                              IngestEcbPath(entry.name),
                              e.INGESTOR_BUCKET, inputs[entry.name].write_ok),
                 i + 1, inputs, e)

\* ingest_economic_data on a POST: the store it leaves and its response.  An
\* exception that leaves the handler is answered by Flask with status 500
\* and no summary.
RunIngestion(st, inputs, e) ==
    LET start == [store |-> st, results |-> << >>, puts |-> <<>>,
                  fetches |-> <<>>, raised |-> FALSE]
    IN  IngestEcb(IngestFred(start, 1, inputs, e), 1, inputs, e)

(***************************************************************************)
(* api_main.py: the catalog, the blob read, the cache and the query.       *)
(***************************************************************************)
CACHE_TTL_SECONDS == 3600

FRED_SERIES_MAP ==
    <<[key |-> "us_unemployment_rate", series_id |-> "UNRATE",
       name |-> "Unemployment Rate", unit |-> "%", frequency |-> "Monthly"],
      [key |-> "us_cpi_all_items", series_id |-> "CPIAUCSL",
       name |-> "CPI (All Items)", unit |-> "Index", frequency |-> "Monthly"],
      [key |-> "us_gdp", series_id |-> "GDP",
       name |-> "Gross Domestic Product", unit |-> "Billions of Dollars",
       frequency |-> "Quarterly"],
      [key |-> "us_fed_funds_rate", series_id |-> "FEDFUNDS",
       name |-> "Fed Funds Rate", unit |-> "%", frequency |-> "Daily"],
      [key |-> "us_retail_sales", series_id |-> "RSXFS",
       name |-> "Retail Sales Ex. Food Services", unit |-> "Billions of Dollars",
       frequency |-> "Monthly"],
      [key |-> "us_manufacturing_pmi_ism", series_id |-> "NAPM",
       name |-> "ISM Manufacturing PMI", unit |-> "Index", frequency |-> "Monthly"],
      [key |-> "us_trade_balance", series_id |-> "BOPASTB",
       name |-> "Trade Balance", unit |-> "Millions of Dollars",
       frequency |-> "Monthly"],
      [key |-> "us_housing_starts", series_id |-> "HOUST",
       name |-> "Housing Starts", unit |-> "Thousands of Units",
       frequency |-> "Monthly"],
      [key |-> "us_consumer_confidence", series_id |-> "CONFCERT",
       name |-> "Consumer Confidence", unit |-> "Index", frequency |-> "Monthly"],
      [key |-> "us_average_hourly_earnings_mom", series_id |-> "CES0500000003",
       name |-> "Avg. Hourly Earnings (MoM)", unit |-> "%", frequency |-> "Monthly"],
      [key |-> "us_nonfarm_payrolls", series_id |-> "PAYEMS",
       name |-> "Nonfarm Payrolls", unit |-> "Thousands", frequency |-> "Monthly"],
      [key |-> "us_initial_jobless_claims", series_id |-> "ICSA",
       name |-> "Initial Jobless Claims", unit |-> "Thousands",
       frequency |-> "Weekly"],
      [key |-> "us_continuing_jobless_claims", series_id |-> "CCSA",
       name |-> "Continuing Jobless Claims", unit |-> "Thousands",
       frequency |-> "Weekly"]>>

\* The blob name the query reads a catalog key from.
QueryPath(key) == "economic_data/fred/" \o PyLower(key) \o ".json"

\* load_data_from_gcs: None (the empty sequence) without a bucket name or
\* without a blob at filename, else the list the blob holds.
load_data_from_gcs(st, bucket_name, filename) ==
    IF ~bucket_name THEN <<>>
    ELSE IF st[filename] = <<>> THEN <<>>
    ELSE st[filename]

\* get_cached_data with an entry still served at the instant it expires.
get_cached_data_inclusive(cache, key, t) ==
    IF key \in DOMAIN cache /\ t <= cache[key].expiry
    THEN <<cache[key].data>>
    ELSE <<>>

\* get_cached_data at clock reading t: the entry's data, or None.
get_cached_data(cache, key, t) ==
    IF key \in DOMAIN cache /\ t < cache[key].expiry
    THEN <<cache[key].data>>
    ELSE <<>>

\* set_cached_data at clock reading t.
set_cached_data(cache, key, data, t) ==
    [k \in DOMAIN cache \cup {key} |->
        IF k = key THEN [data |-> data, expiry |-> t + CACHE_TTL_SECONDS]
        ELSE cache[k]]

\* Truth of the optional query argument: None and '' are false.
Truthy(requested_indicator) ==
    requested_indicator # <<>> /\ requested_indicator[1] # ""

CacheKey(requested_indicator) ==
    "us_data_" \o (IF Truthy(requested_indicator) THEN requested_indicator[1]
                   ELSE "all")

\* The metadata the query adds to each item of a blob.
Annotate(item, info) ==
    [date |-> item.date, value |-> item.value, series_id |-> item.series_id,
     source |-> item.source, indicator_name |-> info.name, unit |-> info.unit,
     frequency |-> info.frequency, country |-> "US", currency |-> "USD"]

\* The loop over FRED_SERIES_MAP.items() from its i-th entry.
RECURSIVE LoadAll(_, _, _, _, _)
LoadAll(st, bucket_name, requested_indicator, i, acc) ==
    IF i > Len(FRED_SERIES_MAP) THEN acc
    ELSE LET info == FRED_SERIES_MAP[i]
         IN  IF Truthy(requested_indicator) /\ requested_indicator[1] # info.key
             THEN LoadAll(st, bucket_name, requested_indicator, i + 1, acc)
             ELSE LET data == load_data_from_gcs(st, bucket_name, QueryPath(info.key))
                  IN  LoadAll(st, bucket_name, requested_indicator, i + 1,
                              IF data # <<>> /\ data[1] # <<>>
                              THEN acc \o [j \in DOMAIN data[1] |->
                                              Annotate(data[1][j], info)]
                              ELSE acc)

\* list.sort(key=date, reverse=True): stable, descending in string order.
RECURSIVE InsertDesc(_, _)
InsertDesc(sorted, p) ==
    IF sorted = <<>> THEN <<p>>
    ELSE IF StrLess(Head(sorted).date, p.date) THEN <<p>> \o sorted
    ELSE <<Head(sorted)>> \o InsertDesc(Tail(sorted), p)

RECURSIVE SortDesc(_)
SortDesc(list) ==
    IF list = <<>> THEN <<>>
    ELSE InsertDesc(SortDesc(SubSeq(list, 1, Len(list) - 1)), list[Len(list)])

\* get_us_economic_data: the response, the cache it leaves, whether it was
\* served from the cache.  t is the clock reading of get_cached_data and
\* t + elapsed that of set_cached_data.
get_us_economic_data(cache, st, bucket_name, requested_indicator, t, elapsed) ==
    LET cache_key == CacheKey(requested_indicator)
        cached_response == get_cached_data(cache, cache_key, t)
    IN  IF cached_response # <<>>
        THEN [response |-> cached_response[1], cache |-> cache, cached |-> TRUE]
        ELSE LET response_data ==
                     [status |-> "success",
                      data |-> SortDesc(LoadAll(st, bucket_name,
                                                requested_indicator, 1, <<>>))]
             IN  [response |-> response_data,
                  cache |-> set_cached_data(cache, cache_key, response_data,
                                            t + elapsed),
                  cached |-> FALSE]

(***************************************************************************)
(* The decoder's inputs.  One value table and one time-dimension list; the *)
(* observations are drawn from ObsKinds, at most MaxObs of them spread     *)
(* over at most MaxSeries series.                                          *)
(***************************************************************************)
TimeValues == <<"2023-M10", "2023-M11", "2023-M12">>

ValueTable == ("0" :> <<"3.1">>) @@ ("1" :> <<"3.4">>) @@ ("3" :> <<"n/a">>)

ObsGoodFirst == [key |-> "0", refs |-> <<0>>]      \* 2023-M10, 3.1
ObsGoodLast == [key |-> "2", refs |-> <<1>>]       \* 2023-M12, 3.4
ObsBeyondEnd == [key |-> "3", refs |-> <<0>>]      \* index = length
ObsNegative == [key |-> "-1", refs |-> <<1>>]      \* index below zero
ObsNoEntry == [key |-> "1", refs |-> <<2>>]        \* no entry "2" in the table
ObsNotNumber == [key |-> "1", refs |-> <<3>>]      \* entry "3" holds "n/a"

ObsKinds ==
    {ObsGoodFirst, ObsGoodLast, ObsBeyondEnd, ObsNegative, ObsNoEntry, ObsNotNumber}

FlatObservations == UNION {[1..n -> ObsKinds] : n \in 0..MaxObs}

\* The non-decreasing cut positions that split a list into n series.
Cuts(n, len) ==
    {c \in [1..(n - 1) -> 0..len] : \A i \in 1..(n - 2) : c[i] <= c[i + 1]}

SplitSeries(flat, n, c) ==
    [i \in 1..n |->
        SubSeq(flat, (IF i = 1 THEN 0 ELSE c[i - 1]) + 1,
                     IF i = n THEN Len(flat) ELSE c[i])]

SeriesLists ==
    UNION {{SplitSeries(flat, n, c) : c \in Cuts(n, Len(flat))} :
           flat \in FlatObservations, n \in 1..MaxSeries}

DataSet(series) == [series |-> series, hasTable |-> TRUE, table |-> ValueTable]

RawInputs ==
    {[dataSets |-> <<>>, timeValues |-> TimeValues],
     [dataSets |-> <<DataSet(<<>>)>>, timeValues |-> TimeValues],
     [dataSets |-> <<[series |-> <<<<ObsGoodFirst>>>>, hasTable |-> FALSE,
                      table |-> ValueTable]>>,
      timeValues |-> TimeValues],
     [dataSets |-> <<DataSet(<<<<ObsNegative>>>>)>>, timeValues |-> <<>>]}
    \cup {[dataSets |-> <<DataSet(s)>>, timeValues |-> TimeValues] : s \in SeriesLists}

HICP == [flow_ref |-> "ICP", key_values |-> "M.U2.N.000000.4.ANR"]

(***************************************************************************)
(* The inputs of an ingestion run: per catalog key the response of the     *)
(* source API and whether upload_from_string succeeds.                     *)
(***************************************************************************)
FredError == [ok |-> FALSE, observations |-> <<>>]

FredGood ==
    [ok |-> TRUE,
     observations |-> <<[date |-> "2024-02-01", value |-> <<"4.1">>],
                        [date |-> "2024-01-01", value |-> <<".">>]>>]

FredNoValue ==
    [ok |-> TRUE,
     observations |-> <<[date |-> "2024-02-01", value |-> <<"4.1">>],
                        [date |-> "2024-01-01", value |-> <<>>]>>]

FredNotNumber ==
    [ok |-> TRUE, observations |-> <<[date |-> "2024-01-01", value |-> <<"n/a">>]>>]

FredInputs ==
    {[resp |-> FredError, write_ok |-> TRUE],
     [resp |-> FredGood, write_ok |-> TRUE],
     [resp |-> FredGood, write_ok |-> FALSE],
     [resp |-> FredNoValue, write_ok |-> TRUE],
     [resp |-> FredNotNumber, write_ok |-> TRUE]}

EcbRaw(series) ==
    [ok |-> TRUE,
     data |-> [dataSets |-> <<DataSet(series)>>, timeValues |-> TimeValues]]

EcbError == [ok |-> FALSE, data |-> [dataSets |-> <<>>, timeValues |-> <<>>]]

EcbGood == EcbRaw(<<<<ObsGoodLast>>, <<ObsGoodFirst>>>>)

EcbNotNumber == EcbRaw(<<<<ObsGoodFirst, ObsNotNumber>>>>)

EcbInputs ==
    {[resp |-> EcbError, write_ok |-> TRUE],
     [resp |-> EcbGood, write_ok |-> TRUE],
     [resp |-> EcbGood, write_ok |-> FALSE],
     [resp |-> EcbNotNumber, write_ok |-> TRUE]}

RunInputs ==
    {(FRED_SERIES[1].name :> a) @@ (FRED_SERIES[2].name :> b)
        @@ (ECB_SERIES[1].name :> c) @@ (ECB_SERIES[2].name :> d) :
     a \in FredInputs, b \in FredInputs, c \in EcbInputs, d \in EcbInputs}

(***************************************************************************)
(* The bucket and the requests.                                            *)
(***************************************************************************)
BlobPaths ==
    {IngestFredPath(FRED_SERIES[i].name) : i \in DOMAIN FRED_SERIES}
    \cup {IngestEcbPath(ECB_SERIES[i].name) : i \in DOMAIN ECB_SERIES}
    \cup {QueryPath(FRED_SERIES_MAP[i].key) : i \in DOMAIN FRED_SERIES_MAP}

\* Blobs an earlier deployment left in the bucket.
OldUnemployment ==
    <<[date |-> "2023-10-01", value |-> 39, series_id |-> "UNRATE",
       source |-> "FRED"]>>

OldGdp ==
    <<[date |-> "2024-01-01", value |-> 41, series_id |-> "GDP", source |-> "FRED"],
      [date |-> "2023-10-01", value |-> 39, series_id |-> "GDP", source |-> "FRED"]>>

SeedStores ==
    {[p \in BlobPaths |->
         IF p = QueryPath("us_unemployment_rate") /\ old THEN <<OldUnemployment>>
         ELSE IF p = QueryPath("us_gdp") /\ old THEN <<OldGdp>>
         ELSE <<>>] : old \in BOOLEAN}

\* The environments of the two processes: every variable set, or one unset.
AllSet == [FRED_API_KEY |-> TRUE, INGESTOR_BUCKET |-> TRUE, API_BUCKET |-> TRUE]

Environments ==
    {AllSet,
     [AllSet EXCEPT !.FRED_API_KEY = FALSE],
     [AllSet EXCEPT !.INGESTOR_BUCKET = FALSE],
     [AllSet EXCEPT !.API_BUCKET = FALSE]}

\* The indicator argument of a request: absent, or one of these strings.
Filters == {<<>>, <<"">>, <<"all">>, <<"us_unemployment_rate">>, <<"US_CPI">>}

TickStep == CACHE_TTL_SECONDS \div 2

\* Seconds between the two clock readings of one request.
LoadTimes == {0, TickStep}

MaxClock == MaxTicks * TickStep

NoResponse == [status |-> "none", data |-> <<>>]

NoRequest ==
    [kind |-> "none", indicator |-> <<>>, cached |-> FALSE, response |-> NoResponse,
     had_entry |-> FALSE, http_status |-> 0, results |-> << >>, puts |-> <<>>,
     fetches |-> <<>>]

DecoderIdle ==
    /\ raw = [dataSets |-> <<>>, timeValues |-> <<>>]
    /\ ecb_ret = <<>>
    /\ ecb_log = "none"
    /\ dpc = "idle"

SystemIdle ==
    /\ store = [p \in BlobPaths |-> <<>>]
    /\ data_cache = << >>
    /\ now = 0
    /\ last = NoRequest
    /\ env = AllSet

(***************************************************************************)
(* The two services over one bucket.                                       *)
(***************************************************************************)
Init ==
    /\ DecoderIdle
    /\ store \in SeedStores
    /\ data_cache = << >>
    /\ now = 0
    /\ last = NoRequest
    /\ env \in Environments

\* POST /ingest-economic-data.  last.results is ingestion_results as the run
\* left it; it is the body of the response when the status is 200.
Ingest ==
    \E run \in {RunIngestion(store, inputs, env) : inputs \in RunInputs} :
            /\ store' = run.store
            /\ last' = [NoRequest EXCEPT
                           !.kind = "ingest",
                           !.http_status = IF run.raised THEN 500 ELSE 200,
                           !.results = run.results,
                           !.puts = run.puts,
                           !.fetches = run.fetches]
            /\ UNCHANGED <<raw, ecb_ret, ecb_log, dpc, data_cache, now, env>>

\* GET /api/economic-calendar/us.
Query ==
    \E requested_indicator \in Filters, elapsed \in LoadTimes :
        LET r == get_us_economic_data(data_cache, store, env.API_BUCKET,
                                      requested_indicator, now, elapsed)
        IN  /\ now + elapsed <= MaxClock
            /\ data_cache' = r.cache
            /\ now' = IF r.cached THEN now ELSE now + elapsed
            /\ last' = [NoRequest EXCEPT
                           !.kind = "query",
                           !.indicator = requested_indicator,
                           !.cached = r.cached,
                           !.had_entry =
                               CacheKey(requested_indicator) \in DOMAIN data_cache,
                           !.response = r.response,
                           !.http_status = 200]
            /\ UNCHANGED <<raw, ecb_ret, ecb_log, dpc, store, env>>

\* Time passes between requests.
Tick ==
    /\ now + TickStep <= MaxClock
    /\ now' = now + TickStep
    /\ UNCHANGED <<raw, ecb_ret, ecb_log, dpc, store, data_cache, last, env>>

Next == Ingest \/ Query \/ Tick

Spec == Init /\ [][Next]_vars

\* The ingestor on its own.
NextIngest == Ingest

SpecIngest == Init /\ [][NextIngest]_vars

\* The read API over a bucket nobody writes.
NextQuery == Query \/ Tick

SpecQuery == Init /\ [][NextQuery]_vars

(***************************************************************************)
(* The decoder on its own: one call of the parsing block on each input.    *)
(***************************************************************************)
InitDecoder ==
    /\ raw \in RawInputs
    /\ ecb_ret = <<>>
    /\ ecb_log = "none"
    /\ dpc = "ready"
    /\ SystemIdle

Decode ==
    /\ dpc = "ready"
    /\ LET r == ParseEcb(raw, HICP.flow_ref, HICP.key_values)
       IN  /\ ecb_ret' = r.ret
           /\ ecb_log' = r.log
    /\ dpc' = "done"
    /\ UNCHANGED <<store, data_cache, now, last, env, raw>>

NextDecoder == Decode

SpecDecoder == InitDecoder /\ [][NextDecoder]_vars

(***************************************************************************)
(* What an observation is, stated on the input alone.                      *)
(***************************************************************************)
RECURSIVE Flatten(_)
Flatten(lists) ==
    IF lists = <<>> THEN <<>> ELSE Head(lists) \o Flatten(Tail(lists))

Range(f) == {f[i] : i \in DOMAIN f}

\* The input has a first dataset with a value table and a non-empty series map.
Structured(data) ==
    /\ data.dataSets # <<>>
    /\ data.dataSets[1].hasTable
    /\ data.dataSets[1].series # <<>>

RawObservations(data) == Flatten(data.dataSets[1].series)

Entry(data, obs) ==
    IF obs.refs # <<>> /\ PyStr(obs.refs[1]) \in DOMAIN data.dataSets[1].table
    THEN data.dataSets[1].table[PyStr(obs.refs[1])]
    ELSE <<>>

ValueParses(data, obs) ==
    Entry(data, obs) # <<>> /\ ~PyFloat(Entry(data, obs)[1]).raised

TimeIndexIsInteger(obs) == ~PyInt(obs.key).raised

TimeIndexInBounds(data, obs) ==
    TimeIndexIsInteger(obs) /\ PyInt(obs.key).val \in 0..(Len(data.timeValues) - 1)

WellFormed(data, obs) == ValueParses(data, obs) /\ TimeIndexInBounds(data, obs)

ExpectedPoint(data, obs) ==
    [date |-> data.timeValues[PyInt(obs.key).val + 1],
     value |-> PyFloat(Entry(data, obs)[1]).val,
     flow_ref |-> HICP.flow_ref,
     key_values |-> HICP.key_values,
     source |-> "ECB"]

WellFormedAt(data) ==
    {i \in DOMAIN RawObservations(data) : WellFormed(data, RawObservations(data)[i])}

\* The returned list holds exactly one point per well-formed observation.
OnePointPerWellFormed(data, ret) ==
    /\ Len(ret) = Cardinality(WellFormedAt(data))
    /\ \A i \in WellFormedAt(data) :
          ExpectedPoint(data, RawObservations(data)[i]) \in Range(ret)

SortedByDate(points) ==
    \A i, j \in DOMAIN points : i < j => ~StrLess(points[j].date, points[i].date)

(***************************************************************************)
(* Claims about the decoder (SpecDecoder).                                 *)
(***************************************************************************)

\* C2: a per-observation failure skips only that observation: when every
\* observation of a structured input is well formed, or has no value-table
\* entry, or has an entry whose first element is not a number, the returned
\* list holds a point for every well-formed observation.
C2_ValueFailureSkipsOnlyThatObservation ==
    (/\ dpc = "done"
     /\ Structured(raw)
     /\ \A i \in DOMAIN RawObservations(raw) :
           LET obs == RawObservations(raw)[i]
           IN  WellFormed(raw, obs)
               \/ (TimeIndexInBounds(raw, obs) /\ ~ValueParses(raw, obs)))
    => OnePointPerWellFormed(raw, ecb_ret)

\* C5 as stated: the return of a structural failure (no dataset entries, or a
\* first dataset without series entries) is distinct from the return of a
\* successful decode that emits zero points, which is the empty list.
C5_StructuralFailureIsDistinctFromZeroPoints ==
    (dpc = "done" /\ (raw.dataSets = <<>> \/ raw.dataSets[1].series = <<>>))
    => ecb_ret # <<>>

\* C5 as amended: both structural failures return the empty list, with no
\* partial output; only the diagnostic printed tells them apart, from each
\* other and from a decode that ran to its end.
C5_StructuralFailureReturnsEmptyList ==
    dpc = "done" =>
        /\ raw.dataSets = <<>> => (ecb_ret = <<>> /\ ecb_log = "NoDataSets")
        /\ (raw.dataSets # <<>> /\ raw.dataSets[1].series = <<>>)
              => (ecb_ret = <<>> /\ ecb_log = "NoSeries")
        /\ ecb_log \in {"Parsed", "CriticalParsingError"}
              => (raw.dataSets # <<>> /\ raw.dataSets[1].series # <<>>)

C5_Witness ==
    /\ dpc = "done"
    /\ raw.dataSets # <<>>
    /\ raw.dataSets[1].series = <<>>
    /\ ecb_log = "NoSeries"

\* C6: an observation whose time-dimension index is not one of the positions
\* 0 .. length-1 is skipped: when every observation of a structured input is
\* well formed or has a parsable value and an integer index outside those
\* positions, the returned list holds exactly the points of the well-formed
\* observations.
C6_OutOfBoundsIndexIsSkipped ==
    (/\ dpc = "done"
     /\ Structured(raw)
     /\ \A i \in DOMAIN RawObservations(raw) :
           LET obs == RawObservations(raw)[i]
           IN  WellFormed(raw, obs)
               \/ (/\ ValueParses(raw, obs)
                   /\ TimeIndexIsInteger(obs)
                   /\ ~TimeIndexInBounds(raw, obs)))
    => OnePointPerWellFormed(raw, ecb_ret)

\* C7: the returned list is sorted non-decreasing by date label over the
\* points of all series together.
C7_OutputSortedAcrossSeries ==
    dpc = "done" => SortedByDate(ecb_ret)

C7_Witness ==
    /\ dpc = "done"
    /\ raw.dataSets # <<>>
    /\ raw.dataSets[1].series = <<<<ObsGoodLast>>, <<ObsGoodFirst>>>>
    /\ Len(ecb_ret) = 2
    /\ ecb_ret[1].date = "2023-M10"

(***************************************************************************)
(* Claims about the ingestion run (SpecIngest).                            *)
(***************************************************************************)
IngestNames ==
    {FRED_SERIES[i].name : i \in DOMAIN FRED_SERIES}
    \cup {ECB_SERIES[i].name : i \in DOMAIN ECB_SERIES}

IngestOrder ==
    [i \in DOMAIN FRED_SERIES |-> FRED_SERIES[i].name]
    \o [i \in DOMAIN ECB_SERIES |-> ECB_SERIES[i].name]

IngestPath(name) ==
    IF \E i \in DOMAIN FRED_SERIES : FRED_SERIES[i].name = name
    THEN IngestFredPath(name)
    ELSE IngestEcbPath(name)

PutsFor(name) == {i \in DOMAIN last.puts : last.puts[i].name = name}

\* C1: a failure at one catalog key never stops the remaining keys: whatever
\* the fetches of a run did, every key of FRED_SERIES and ECB_SERIES was
\* fetched and has a status record, a key without a put has failed_fetch, and
\* the response is the summary with HTTP 200.
C1_FailureAtOneKeyNeverStopsTheRun ==
    last.kind = "ingest" =>
        /\ last.http_status = 200
        /\ last.fetches = IngestOrder
        /\ DOMAIN last.results = IngestNames
        /\ \A name \in IngestNames :
              PutsFor(name) = {} => last.results[name].status = "failed_fetch"

\* The response to an unfiltered query that finds the cache empty.
ColdQuery ==
    get_us_economic_data(<< >>, store, env.API_BUCKET, <<>>, now, 0).response

\* The query served the point the ingestion wrote.
Serves(data, point) ==
    \E j \in DOMAIN data :
        /\ data[j].date = point.date
        /\ data[j].value = point.value
        /\ data[j].source = point.source
        /\ point.source = "FRED" => data[j].series_id = point.series_id

\* C9: ingestion and query agree on blob paths: after a run, an unfiltered
\* query on an empty cache returns, for every key of FRED_SERIES (the US keys,
\* the ones the query's catalog is written to match) that the run records
\* with status success, the points the run wrote for that key.
C9_QueryReadsWhatIngestionWrote ==
    (last.kind = "ingest" /\ env.API_BUCKET) =>
        \A f \in DOMAIN FRED_SERIES :
            LET name == FRED_SERIES[f].name
            IN  (name \in DOMAIN last.results
                 /\ last.results[name].status = "success") =>
                    \A i \in PutsFor(name) :
                        \A k \in DOMAIN last.puts[i].data :
                            Serves(ColdQuery.data, last.puts[i].data[k])

\* C10: in every run, a key recorded failed_fetch has no put and its blob is
\* as it was before the run; every put carries at least one point; a key
\* recorded success has one put, whose list is the blob now stored at the
\* recorded path, and count is the length of that list and at least 1.
C10_FailedFetchLeavesBlobUnchanged ==
    [][last'.kind = "ingest" =>
          /\ \A i \in DOMAIN last'.puts : last'.puts[i].data # <<>>
          /\ \A name \in DOMAIN last'.results :
                LET rec == last'.results[name]
                    mine == {i \in DOMAIN last'.puts : last'.puts[i].name = name}
                IN  /\ rec.status = "failed_fetch" =>
                          /\ mine = {}
                          /\ store'[IngestPath(name)] = store[IngestPath(name)]
                    /\ rec.status = "success" =>
                          /\ Cardinality(mine) = 1
                          /\ \A i \in mine :
                                /\ rec.gcs_path = last'.puts[i].path
                                /\ rec.count = Len(last'.puts[i].data)
                                /\ store'[rec.gcs_path] = <<last'.puts[i].data>>
                          /\ rec.count >= 1]_vars

C10_Witness ==
    /\ last.kind = "ingest"
    /\ last.http_status = 200
    /\ last.results["US_UNEMPLOYMENT_RATE"].status = "failed_fetch"
    /\ store[IngestPath("US_UNEMPLOYMENT_RATE")] = <<OldUnemployment>>
    /\ last.results["US_CPI"].status = "success"
    /\ last.results["US_CPI"].count = 1

(***************************************************************************)
(* Claims about the query (SpecQuery).                                     *)
(***************************************************************************)
CatalogKeys == {FRED_SERIES_MAP[i].key : i \in DOMAIN FRED_SERIES_MAP}

\* C3: a query whose indicator filter is a non-empty string that is not a key
\* of FRED_SERIES_MAP returns {status: "success", data: []}, after any
\* sequence of earlier requests.
C3_UnknownFilterReturnsNoData ==
    (/\ last.kind = "query"
     /\ Truthy(last.indicator)
     /\ last.indicator[1] \notin CatalogKeys)
    => last.response = [status |-> "success", data |-> <<>>]

\* C4: over a bucket that does not change, the response to a query without
\* the indicator argument holds the points of every catalog key whose blob
\* exists, after any sequence of earlier requests.
C4_UnfilteredQueryReturnsAllEntries ==
    (last.kind = "query" /\ last.indicator = <<>> /\ env.API_BUCKET) =>
        \A i \in DOMAIN FRED_SERIES_MAP :
            LET blob == store[QueryPath(FRED_SERIES_MAP[i].key)]
            IN  blob # <<>> =>
                    \A k \in DOMAIN blob[1] :
                        Serves(last.response.data, blob[1][k])

\* C8: a request is served from the cache exactly when an entry exists under
\* its cache key with now < expiry, and then the cache is left as it is;
\* otherwise the response is built from the bucket and replaces the entry,
\* with expiry the clock reading of the replacement + CACHE_TTL_SECONDS, and
\* no other entry changes.
C8_ServedFromCacheOnlyBeforeExpiry ==
    [][(last'.kind = "query" /\ (data_cache' # data_cache \/ now' = now)) =>
          LET key == CacheKey(last'.indicator)
              fresh == key \in DOMAIN data_cache /\ now < data_cache[key].expiry
          IN  /\ last'.cached <=> fresh
              /\ fresh => /\ last'.response = data_cache[key].data
                          /\ data_cache' = data_cache
              /\ ~fresh =>
                    /\ last'.response =
                           [status |-> "success",
                            data |-> SortDesc(LoadAll(store, env.API_BUCKET,
                                                      last'.indicator, 1, <<>>))]
                    /\ DOMAIN data_cache' = DOMAIN data_cache \cup {key}
                    /\ data_cache'[key] =
                           [data |-> last'.response,
                            expiry |-> now' + CACHE_TTL_SECONDS]
                    /\ \A k \in DOMAIN data_cache \ {key} :
                           data_cache'[k] = data_cache[k]]_vars

C8_Witness ==
    /\ last.kind = "query"
    /\ ~last.cached
    /\ last.had_entry
    /\ now >= CACHE_TTL_SECONDS
    /\ data_cache[CacheKey(last.indicator)].expiry = now + CACHE_TTL_SECONDS
    /\ last.response.data # <<>>

====
